---- MODULE Spec2Model ----
(***************************************************************************)
(* The Jlink facade of nrf-jlink-js (src/src/jlink.ts): construction-time  *)
(* selection of a backend strategy and forwarding of every operation to it.*)
(* The backends (JlinkInstaller, JlinkBundle, JlinkAbstract) are external  *)
(* collaborators; they are modelled as recording doubles that keep the     *)
(* path and the version they were given and may fail on any call.          *)
(***************************************************************************)
EXTENDS Naturals, Sequences, FiniteSets, TLC

VARIABLES
    status,       \* per facade object: "none" (not yet constructed), "ok", "failed"
    installType,  \* this.installType
    os,           \* this.os
    arch,         \* this.arch
    jlink,        \* this.jlink: the backend object held (NoBackend when unassigned)
    backends,     \* the backend objects created so far, in creation order
    env,          \* process.env["NRF_JLINK_PATH"]
    inflight,     \* async facade calls suspended at their await, one per slot
    call,         \* the facade call being observed by the caller (NoCall when idle)
    delegated,    \* the backend calls that facade call made, in order
    outcome,      \* how that facade call ended for its caller
    settled,      \* the async facade call whose promise has just settled
    pathSet,      \* per facade: the argument of the caller's latest setJlinkPath that returned
    versionSet    \* per facade: the argument of the caller's latest setJlinkVersion that returned

vars == <<status, installType, os, arch, jlink, backends, env, inflight,
          call, delegated, outcome, settled, pathSet, versionSet>>

-----------------------------------------------------------------------------
(* Values *)

\* JavaScript's undefined (an omitted argument, an unset field or variable).
UNDEF == "undefined"

\* The facade objects of the process.
Facades == {"f1", "f2"}

\* How many async facade calls may be in flight at once.
MaxInFlight == 2

\* process.platform and process.arch of the running process.
ProcessPlatform == "linux"
ProcessArch == "x64"

\* Argument values callers pass.
Paths == {"p1", "p2"}
Versions == {"v1", "v2"}
Callbacks == {"cb"}
Optional(S) == S \cup {UNDEF}

\* Constructor arguments: omitted, the two falsy/empty strings, the recognised
\* values and an unrecognised one.
InstallTypeInputs == {UNDEF, "", "installer", "bundle", "portable"}
OsInputs == {UNDEF, "", "linux", "win32"}
ArchInputs == {UNDEF, "", "x64", "arm64"}

\* What a backend may return or resolve with, and the errors it may raise.
Results == {"r1", "r2"}
Errors == {"e1", "e2"}
InvalidInstallType == "Invalid install type"

NoBackend == 0
Slots == 1..MaxInFlight

Ok(v) == [ok |-> TRUE, v |-> v]
Err(e) == [ok |-> FALSE, v |-> e]
Pending == [ok |-> FALSE, v |-> "pending"]

NoCall == [f |-> "", op |-> "", args |-> <<>>]
NoOutcome == [kind |-> "none", value |-> UNDEF]
NoSettle == [f |-> "", op |-> "", backend |-> Pending, facade |-> Pending]
FreeSlot == [f |-> "", op |-> "", backend |-> Pending]

Called(f, op, args) == [f |-> f, op |-> op, args |-> args]
Delegation(b, op, args, r) == [b |-> b, op |-> op, args |-> args, result |-> r]
Returned(v) == [kind |-> "return", value |-> v]
Thrown(e) == [kind |-> "throw", value |-> e]
PromiseReturned == [kind |-> "promise", value |-> UNDEF]

\* The caller is between calls: nothing is being observed.
Idle == call = NoCall /\ settled = NoSettle

-----------------------------------------------------------------------------
(* The backend strategies (external collaborators) *)

JlinkInstaller(o, a) ==
    [kind |-> "installer", os |-> o, arch |-> a, jlinkPath |-> UNDEF, jlinkVersion |-> UNDEF]

JlinkBundle(o, a) ==
    [kind |-> "bundle", os |-> o, arch |-> a, jlinkPath |-> UNDEF, jlinkVersion |-> UNDEF]

\* The values a synchronous backend operation can return.
BackendReturns(b, op, args) ==
    CASE op = "getJlinkPath" -> {backends[b].jlinkPath}
      [] op = "getJlinkVersion" -> {backends[b].jlinkVersion}
      [] op \in {"listLocalInstalled", "showLicense"} -> Results
      [] OTHER -> {UNDEF}

\* A synchronous backend operation returns one of its values or throws.
BackendOutcomes(b, op, args) ==
    {Ok(v) : v \in BackendReturns(b, op, args)} \cup {Err(e) : e \in Errors}

\* The backend objects after backend b ran op(args) with outcome r.
BackendAfter(b, op, args, r) ==
    IF ~r.ok THEN backends
    ELSE CASE op = "setJlinkPath" -> [backends EXCEPT ![b].jlinkPath = args[1]]
           [] op = "setJlinkVersion" -> [backends EXCEPT ![b].jlinkVersion = args[1]]
           [] OTHER -> backends

\* Every outcome a backend call can have.
Outcomes ==
    {Ok(v) : v \in Results \cup Optional(Paths) \cup Versions} \cup {Err(e) : e \in Errors}

\* What an asynchronous backend operation's promise can settle with.
BackendSettlements == {Ok(v) : v \in Results} \cup {Err(e) : e \in Errors}

SyncMethods == {"listLocalInstalled", "setJlinkPath", "getJlinkPath", "setJlinkVersion",
                "getJlinkVersion", "acceptLicense", "declineLicense", "showLicense"}
AsyncMethods == {"listRemote", "download", "downloadFromSegger", "install",
                 "downloadAndInstall", "getVersion", "upload"}
Methods == SyncMethods \cup AsyncMethods

\* The async methods that await the backend without returning its value.
VoidOps == {"install", "downloadAndInstall"}

-----------------------------------------------------------------------------
(* Construction *)

\* Mutant: a ?? b, which falls back only when a is undefined.
OrElse_Nullish(a, b) == IF a = UNDEF THEN b ELSE a

\* JavaScript's a || b on strings and undefined: b when a is falsy.
OrElse(a, b) == IF a \in {UNDEF, ""} THEN b ELSE a

Constructor(f, it, o, a) ==
    /\ Idle
    /\ status[f] = "none"
    /\ LET t == OrElse(it, "installer")
           o2 == OrElse(o, ProcessPlatform)
           a2 == OrElse(a, ProcessArch)
       IN  /\ installType' = [installType EXCEPT ![f] = t]
           /\ os' = [os EXCEPT ![f] = o2]
           /\ arch' = [arch EXCEPT ![f] = a2]
           /\ call' = Called(f, "constructor", <<it, o, a>>)
           /\ delegated' = <<>>
           /\ CASE t = "installer" ->
                    /\ backends' = Append(backends, JlinkInstaller(o2, a2))
                    /\ jlink' = [jlink EXCEPT ![f] = Len(backends) + 1]
                    /\ status' = [status EXCEPT ![f] = "ok"]
                    /\ outcome' = Returned(UNDEF)
                [] t = "bundle" ->
                    /\ backends' = Append(backends, JlinkBundle(o2, a2))
                    /\ jlink' = [jlink EXCEPT ![f] = Len(backends) + 1]
                    /\ status' = [status EXCEPT ![f] = "ok"]
                    /\ outcome' = Returned(UNDEF)
                [] OTHER ->
                    /\ status' = [status EXCEPT ![f] = "failed"]
                    /\ outcome' = Thrown(InvalidInstallType)
                    /\ UNCHANGED <<backends, jlink>>
    /\ UNCHANGED <<env, inflight, settled, pathSet, versionSet>>

-----------------------------------------------------------------------------
(* Forwarding *)

\* A method can be called on a facade object that was constructed.
Callable(f) == Idle /\ status[f] = "ok"

\* A synchronous method: one call of the backend's bop(bargs); its value is
\* returned when the method says `return`, its error is thrown on.
SyncForward(f, op, args, bop, bargs, r, returnsValue) ==
    /\ Callable(f)
    /\ r \in BackendOutcomes(jlink[f], bop, bargs)
    /\ call' = Called(f, op, args)
    /\ delegated' = <<Delegation(jlink[f], bop, bargs, r)>>
    /\ backends' = BackendAfter(jlink[f], bop, bargs, r)
    /\ outcome' = IF r.ok THEN Returned(IF returnsValue THEN r.v ELSE UNDEF)
                          ELSE Thrown(r.v)
    /\ UNCHANGED <<status, installType, os, arch, jlink, inflight, settled>>

\* The slot the next suspended call takes.
FirstFree == CHOOSE i \in Slots : inflight[i] = FreeSlot /\ \A j \in 1..(i - 1) : inflight[j] # FreeSlot

\* An async method up to its await: the backend's bop(bargs) is called, the
\* method suspends on the promise it got and its caller gets a promise.
AsyncForward(f, op, args, bop, bargs) ==
    /\ Callable(f)
    /\ {i \in Slots : inflight[i] = FreeSlot} # {}
    /\ call' = Called(f, op, args)
    /\ delegated' = <<Delegation(jlink[f], bop, bargs, Pending)>>
    /\ inflight' = [inflight EXCEPT ![FirstFree] = [f |-> f, op |-> op, backend |-> Pending]]
    /\ outcome' = PromiseReturned
    /\ UNCHANGED <<status, installType, os, arch, jlink, backends, env, settled,
                   pathSet, versionSet>>

listLocalInstalled(f, r) ==
    /\ SyncForward(f, "listLocalInstalled", <<>>, "listLocalInstalled", <<>>, r, TRUE)
    /\ UNCHANGED <<env, pathSet, versionSet>>

listRemote(f) == AsyncForward(f, "listRemote", <<>>, "listRemote", <<>>)

download(f, version, progressUpdate) ==
    AsyncForward(f, "download", <<version, progressUpdate>>,
                    "download", <<version, progressUpdate>>)

downloadFromSegger(f, version, progressUpdate) ==
    AsyncForward(f, "downloadFromSegger", <<version, progressUpdate>>,
                    "downloadFromSegger", <<version, progressUpdate>>)

\* Mutant: install without its await: the backend call is started and the
\* method's own promise is fulfilled at once.
install_NotAwaited(f, installPath) ==
    /\ Callable(f)
    /\ call' = Called(f, "install", <<installPath>>)
    /\ delegated' = <<Delegation(jlink[f], "install", <<installPath>>, Pending)>>
    /\ outcome' = PromiseReturned
    /\ settled' = [f |-> f, op |-> "install", backend |-> Pending, facade |-> Ok(UNDEF)]
    /\ UNCHANGED <<status, installType, os, arch, jlink, backends, env, inflight,
                   pathSet, versionSet>>

install(f, installPath) ==
    AsyncForward(f, "install", <<installPath>>, "install", <<installPath>>)

\* Mutant: downloadAndInstall forwarding to the backend's download.
downloadAndInstall_CallsDownload(f, version, progressUpdate) ==
    AsyncForward(f, "downloadAndInstall", <<version, progressUpdate>>,
                    "download", <<version, progressUpdate>>)

downloadAndInstall(f, version, progressUpdate) ==
    AsyncForward(f, "downloadAndInstall", <<version, progressUpdate>>,
                    "downloadAndInstall", <<version, progressUpdate>>)

getVersion(f) == AsyncForward(f, "getVersion", <<>>, "getVersion", <<>>)

upload(f, filePath, version, progressUpdate) ==
    AsyncForward(f, "upload", <<filePath, version, progressUpdate>>,
                    "upload", <<filePath, version, progressUpdate>>)

\* Mutant: setJlinkPath that only informs the backend.
setJlinkPath_BackendOnly(f, path, r) ==
    /\ SyncForward(f, "setJlinkPath", <<path>>, "setJlinkPath", <<path>>, r, FALSE)
    /\ pathSet' = IF r.ok THEN [pathSet EXCEPT ![f] = path] ELSE pathSet
    /\ UNCHANGED <<env, versionSet>>

\* Mutant: setJlinkPath that writes the environment variable after the
\* backend call, so not when the backend throws.
setJlinkPath_EnvAfter(f, path, r) ==
    /\ env' = IF r.ok THEN path ELSE env
    /\ SyncForward(f, "setJlinkPath", <<path>>, "setJlinkPath", <<path>>, r, FALSE)
    /\ pathSet' = IF r.ok THEN [pathSet EXCEPT ![f] = path] ELSE pathSet
    /\ UNCHANGED versionSet

setJlinkPath(f, path, r) ==
    /\ env' = path
    /\ SyncForward(f, "setJlinkPath", <<path>>, "setJlinkPath", <<path>>, r, FALSE)
    /\ pathSet' = IF r.ok THEN [pathSet EXCEPT ![f] = path] ELSE pathSet
    /\ UNCHANGED versionSet

\* Mutant: getJlinkPath answering from the environment variable.
getJlinkPath_FromEnv(f, r) ==
    /\ Callable(f)
    /\ r = Ok(env)
    /\ call' = Called(f, "getJlinkPath", <<>>)
    /\ delegated' = <<>>
    /\ outcome' = Returned(env)
    /\ UNCHANGED <<status, installType, os, arch, jlink, backends, env, inflight,
                   settled, pathSet, versionSet>>

getJlinkPath(f, r) ==
    /\ SyncForward(f, "getJlinkPath", <<>>, "getJlinkPath", <<>>, r, TRUE)
    /\ UNCHANGED <<env, pathSet, versionSet>>

\* Mutant: setJlinkVersion with setJlinkPath's environment write copied in.
setJlinkVersion_WritesEnv(f, version, r) ==
    /\ env' = version
    /\ SyncForward(f, "setJlinkVersion", <<version>>, "setJlinkVersion", <<version>>, r, FALSE)
    /\ versionSet' = IF r.ok THEN [versionSet EXCEPT ![f] = version] ELSE versionSet
    /\ UNCHANGED pathSet

setJlinkVersion(f, version, r) ==
    /\ SyncForward(f, "setJlinkVersion", <<version>>, "setJlinkVersion", <<version>>, r, FALSE)
    /\ versionSet' = IF r.ok THEN [versionSet EXCEPT ![f] = version] ELSE versionSet
    /\ UNCHANGED <<env, pathSet>>

getJlinkVersion(f, r) ==
    /\ SyncForward(f, "getJlinkVersion", <<>>, "getJlinkVersion", <<>>, r, TRUE)
    /\ UNCHANGED <<env, pathSet, versionSet>>

\* Mutant: acceptLicense on a backend it instantiates afresh and keeps.
acceptLicense_NewBackend(f, r) ==
    /\ Callable(f)
    /\ r \in {Ok(UNDEF)} \cup {Err(e) : e \in Errors}
    /\ backends' = Append(backends, JlinkInstaller(os[f], arch[f]))
    /\ jlink' = [jlink EXCEPT ![f] = Len(backends) + 1]
    /\ call' = Called(f, "acceptLicense", <<>>)
    /\ delegated' = <<Delegation(Len(backends) + 1, "acceptLicense", <<>>, r)>>
    /\ outcome' = IF r.ok THEN Returned(UNDEF) ELSE Thrown(r.v)
    /\ UNCHANGED <<status, installType, os, arch, env, inflight, settled,
                   pathSet, versionSet>>

acceptLicense(f, r) ==
    /\ SyncForward(f, "acceptLicense", <<>>, "acceptLicense", <<>>, r, FALSE)
    /\ UNCHANGED <<env, pathSet, versionSet>>

declineLicense(f, r) ==
    /\ SyncForward(f, "declineLicense", <<>>, "declineLicense", <<>>, r, FALSE)
    /\ UNCHANGED <<env, pathSet, versionSet>>

showLicense(f, r) ==
    /\ SyncForward(f, "showLicense", <<>>, "showLicense", <<>>, r, TRUE)
    /\ UNCHANGED <<env, pathSet, versionSet>>

-----------------------------------------------------------------------------
(* Completion of async calls *)

\* Mutant: a rejection wrapped in an error of the facade's own.
AfterAwait_Wrapped(op, r) ==
    IF r.ok THEN (IF op \in {"install", "downloadAndInstall"} THEN Ok(UNDEF) ELSE Ok(r.v))
            ELSE Err("wrapped")

\* What the async method op settles its own promise with once the backend
\* promise it awaits has settled with r.
AfterAwait(op, r) ==
    IF r.ok THEN (IF op \in VoidOps THEN Ok(UNDEF) ELSE Ok(r.v)) ELSE Err(r.v)

\* The backend's promise awaited in slot i settles.
BackendSettle(i, r) ==
    /\ Idle
    /\ inflight[i] # FreeSlot
    /\ inflight[i].backend = Pending
    /\ r \in BackendSettlements
    /\ inflight' = [inflight EXCEPT ![i].backend = r]
    /\ UNCHANGED <<status, installType, os, arch, jlink, backends, env,
                   call, delegated, outcome, settled, pathSet, versionSet>>

\* The suspended method resumes after its await and settles its promise.
Resume(i) ==
    /\ Idle
    /\ inflight[i].backend # Pending
    /\ settled' = [f |-> inflight[i].f, op |-> inflight[i].op,
                   backend |-> inflight[i].backend,
                   facade |-> AfterAwait(inflight[i].op, inflight[i].backend)]
    /\ inflight' = [inflight EXCEPT ![i] = FreeSlot]
    /\ UNCHANGED <<status, installType, os, arch, jlink, backends, env,
                   call, delegated, outcome, pathSet, versionSet>>

\* The caller has seen the result and goes on.
Return ==
    /\ ~Idle
    /\ call' = NoCall
    /\ delegated' = <<>>
    /\ outcome' = NoOutcome
    /\ settled' = NoSettle
    /\ UNCHANGED <<status, installType, os, arch, jlink, backends, env, inflight,
                   pathSet, versionSet>>

-----------------------------------------------------------------------------
(* Specifications *)

Init ==
    /\ status = [f \in Facades |-> "none"]
    /\ installType = [f \in Facades |-> UNDEF]
    /\ os = [f \in Facades |-> UNDEF]
    /\ arch = [f \in Facades |-> UNDEF]
    /\ jlink = [f \in Facades |-> NoBackend]
    /\ backends = <<>>
    /\ env = UNDEF
    /\ inflight = [i \in Slots |-> FreeSlot]
    /\ call = NoCall
    /\ delegated = <<>>
    /\ outcome = NoOutcome
    /\ settled = NoSettle
    /\ pathSet = [f \in Facades |-> UNDEF]
    /\ versionSet = [f \in Facades |-> UNDEF]

\* Callers that only construct facades, with every kind of argument.
Construct ==
    \E f \in Facades, it \in InstallTypeInputs, o \in OsInputs, a \in ArchInputs :
        Constructor(f, it, o, a)

NextCtor == Construct \/ Return

SpecCtor == Init /\ [][NextCtor]_vars

\* Callers that construct facades for the running platform, f1 before f2,
\* and use them, awaiting each async call before the next call (Sequential).
ConstructDefault ==
    \E f \in Facades, it \in {"installer", "bundle", "portable"} :
        /\ f = "f2" => status["f1"] # "none"
        /\ Constructor(f, it, UNDEF, UNDEF)

Sequential == \A i \in Slots : inflight[i] = FreeSlot

SyncCall ==
    \E f \in Facades :
        \/ \E r \in Outcomes : listLocalInstalled(f, r)
        \/ \E p \in Paths : \E r \in Outcomes : setJlinkPath(f, p, r)
        \/ \E r \in Outcomes : getJlinkPath(f, r)
        \/ \E v \in Versions : \E r \in Outcomes : setJlinkVersion(f, v, r)
        \/ \E r \in Outcomes : getJlinkVersion(f, r)
        \/ \E r \in Outcomes : acceptLicense(f, r)
        \/ \E r \in Outcomes : declineLicense(f, r)
        \/ \E r \in Outcomes : showLicense(f, r)

AsyncCall ==
    \E f \in Facades :
        \/ listRemote(f)
        \/ \E v \in Versions, cb \in Optional(Callbacks) : download(f, v, cb)
        \/ \E v \in Versions, cb \in Optional(Callbacks) : downloadFromSegger(f, v, cb)
        \/ \E p \in Optional(Paths) : install(f, p)
        \/ \E v \in Versions, cb \in Optional(Callbacks) : downloadAndInstall(f, v, cb)
        \/ getVersion(f)
        \/ \E p \in Paths, v \in Versions, cb \in Optional(Callbacks) : upload(f, p, v, cb)

Settle == \E i \in Slots : \E r \in BackendSettlements : BackendSettle(i, r)

Continue == \E i \in Slots : Resume(i)

Next ==
    \/ ConstructDefault
    \/ Sequential /\ SyncCall
    \/ Sequential /\ AsyncCall
    \/ Settle
    \/ Continue
    \/ Return

Spec == Init /\ [][Next]_vars

\* Callers that start async calls on one facade without awaiting the earlier
\* ones.  FairSpec adds the event loop's scheduling: synchronous code runs to
\* completion (Return), and a method whose awaited promise has settled is
\* resumed once the stack is empty, however often callers start new calls.
ConstructOne == \E it \in {"installer", "bundle"} : Constructor("f1", it, UNDEF, UNDEF)

ConcurrentCall ==
    \/ listRemote("f1")
    \/ download("f1", "v1", "cb")
    \/ downloadFromSegger("f1", "v1", UNDEF)
    \/ install("f1", UNDEF)
    \/ downloadAndInstall("f1", "v1", "cb")
    \/ getVersion("f1")
    \/ upload("f1", "p1", "v1", UNDEF)

SettleEither == \E i \in Slots : \E r \in {Ok("r1"), Err("e1")} : BackendSettle(i, r)

NextAsync == ConstructOne \/ ConcurrentCall \/ SettleEither \/ Continue \/ Return

SpecAsync == Init /\ [][NextAsync]_vars

FairSpec == SpecAsync /\ (\A i \in Slots : SF_vars(Resume(i))) /\ WF_vars(Return)

-----------------------------------------------------------------------------
(* Properties *)

\* C1: every install type passed to the constructor other than "installer"
\* or "bundle" makes construction throw "Invalid install type", with no
\* backend instantiated and this.jlink left unassigned.
C1_InvalidInstallTypeRejected ==
    (call.op = "constructor" /\ call.args[1] \notin {UNDEF, "installer", "bundle"})
        => /\ outcome = Thrown(InvalidInstallType)
           /\ status[call.f] = "failed"
           /\ jlink[call.f] = NoBackend
           /\ Len(backends) = Cardinality({f \in Facades : status[f] = "ok"})

\* C2: a facade constructed with "installer" holds an installer backend, one
\* constructed with "bundle" a bundle backend, and every facade method call
\* makes exactly one backend call: the same-named operation of the facade's
\* own backend, with the same arguments.
C2_OneDelegationPerCall ==
    /\ \A f \in Facades :
         status[f] = "ok" =>
            /\ jlink[f] \in 1..Len(backends)
            /\ installType[f] \in {"installer", "bundle"}
            /\ backends[jlink[f]].kind = installType[f]
    /\ (call.op = "constructor" /\ call.args[1] \in {"installer", "bundle"}) =>
            /\ status[call.f] = "ok"
            /\ backends[jlink[call.f]].kind = call.args[1]
    /\ call.op \in Methods =>
            /\ Len(delegated) = 1
            /\ delegated[1].b = jlink[call.f]
            /\ delegated[1].op = call.op
            /\ delegated[1].args = call.args

C2_Witness ==
    /\ call = Called("f2", "upload", <<"p2", "v1", "cb">>)
    /\ installType["f2"] = "bundle"
    /\ installType["f1"] = "installer"
    /\ delegated[1].b = jlink["f2"]

\* C3: when setJlinkPath(X) returns, the backend has received
\* setJlinkPath(X) and records X as its path, and NRF_JLINK_PATH is X.
C3_SetJlinkPathSetsBoth ==
    (call.op = "setJlinkPath" /\ outcome.kind = "return") =>
        /\ env = call.args[1]
        /\ delegated = <<Delegation(jlink[call.f], "setJlinkPath", call.args, Ok(UNDEF))>>
        /\ backends[jlink[call.f]].jlinkPath = call.args[1]

C3_Witness ==
    /\ call = Called("f2", "setJlinkPath", <<"p2">>)
    /\ outcome = Returned(UNDEF)
    /\ env = "p2"
    /\ backends[jlink["f2"]].jlinkPath = "p2"
    /\ pathSet["f1"] = "p1"

\* C4: a backend failure reaches the caller unchanged.  A synchronous method
\* throws exactly the error its backend call threw and throws nothing else;
\* an async method's promise rejects with exactly the error the backend's
\* promise rejected with, and fulfils only when the backend's fulfilled; no
\* backend call is made again.
C4_ErrorsPropagateUnchanged ==
    /\ call.op \in SyncMethods =>
          /\ Len(delegated) = 1
          /\ ~delegated[1].result.ok => outcome = Thrown(delegated[1].result.v)
          /\ delegated[1].result.ok => outcome.kind = "return"
    /\ settled # NoSettle =>
          /\ settled.backend # Pending
          /\ delegated = <<>>
          /\ ~settled.backend.ok => settled.facade = settled.backend
          /\ settled.backend.ok => settled.facade.ok

C4_Witness ==
    /\ settled.op = "listRemote"
    /\ settled.backend = Err("e2")
    /\ settled.facade = Err("e2")

\* C5: getJlinkPath returns the argument of the latest setJlinkPath that
\* returned on the same facade, and getJlinkVersion that of the latest
\* setJlinkVersion, whatever was called in between on either facade.
C5_RoundTrip ==
    /\ (call.op = "getJlinkPath" /\ outcome.kind = "return" /\ pathSet[call.f] # UNDEF)
          => outcome.value = pathSet[call.f]
    /\ (call.op = "getJlinkVersion" /\ outcome.kind = "return" /\ versionSet[call.f] # UNDEF)
          => outcome.value = versionSet[call.f]

C5_Witness ==
    /\ call = Called("f1", "getJlinkPath", <<>>)
    /\ outcome = Returned("p1")
    /\ pathSet["f2"] = "p2"
    /\ env = "p2"
    /\ versionSet["f1"] = "v2"

\* C6 (as amended): with the os/arch argument omitted or empty the facade
\* records, and passes to the backend constructor, the process's platform and
\* architecture, and an omitted install type becomes "installer"; a
\* non-empty os or arch is the one recorded and passed on.
C6_NonEmptyOrAmbient ==
    call.op = "constructor" =>
        LET f == call.f
            it == call.args[1]
            o == call.args[2]
            a == call.args[3]
        IN  /\ os[f] = (IF o \in {UNDEF, ""} THEN ProcessPlatform ELSE o)
            /\ arch[f] = (IF a \in {UNDEF, ""} THEN ProcessArch ELSE a)
            /\ it = UNDEF => installType[f] = "installer"
            /\ status[f] = "ok" =>
                  /\ backends[jlink[f]].os = os[f]
                  /\ backends[jlink[f]].arch = arch[f]

C6_Witness ==
    /\ call = Called("f2", "constructor", <<UNDEF, "win32", UNDEF>>)
    /\ installType["f2"] = "installer"
    /\ os["f2"] = "win32"
    /\ arch["f2"] = ProcessArch
    /\ backends[jlink["f2"]].os = "win32"
    /\ backends[jlink["f2"]].arch = ProcessArch

\* C6 (as stated): with no os/arch argument the facade records, and passes
\* to the backend constructor, the process's platform and architecture, and
\* the install type defaults to "installer"; an os or arch that is supplied
\* is the one recorded and passed on.
C6_SuppliedOrAmbient ==
    call.op = "constructor" =>
        LET f == call.f
            it == call.args[1]
            o == call.args[2]
            a == call.args[3]
        IN  /\ os[f] = (IF o = UNDEF THEN ProcessPlatform ELSE o)
            /\ arch[f] = (IF a = UNDEF THEN ProcessArch ELSE a)
            /\ it = UNDEF => installType[f] = "installer"
            /\ status[f] = "ok" =>
                  /\ backends[jlink[f]].os = os[f]
                  /\ backends[jlink[f]].arch = arch[f]

\* C7: once a facade is constructed, no step replaces its backend object or
\* changes its installType, os or arch; the backend is of the strategy the
\* install type names and no further backend is ever created.
C7_Fixed(f) ==
    status[f] = "ok" =>
        /\ status'[f] = "ok"
        /\ jlink'[f] = jlink[f]
        /\ installType'[f] = installType[f]
        /\ os'[f] = os[f]
        /\ arch'[f] = arch[f]
        /\ backends'[jlink[f]].kind = backends[jlink[f]].kind
        /\ backends'[jlink[f]].os = backends[jlink[f]].os
        /\ backends'[jlink[f]].arch = backends[jlink[f]].arch

C7_OneBackendEach ==
    /\ Len(backends) = Cardinality({f \in Facades : status[f] = "ok"})
    /\ \A f \in Facades :
          status[f] = "ok" =>
             /\ jlink[f] \in 1..Len(backends)
             /\ backends[jlink[f]].kind = installType[f]
             /\ \A g \in Facades \ {f} : jlink[g] # jlink[f]

\* C7: in every reachable state each constructed facade holds the one backend
\* made at its construction, and no step changes that or its configuration.
C7_BackendAndConfigFixed ==
    /\ []C7_OneBackendEach
    /\ [][\A f \in Facades : C7_Fixed(f)]_vars

C7_Witness ==
    /\ status["f1"] = "ok" /\ status["f2"] = "ok"
    /\ settled.f = "f2" /\ settled.op = "install"
    /\ pathSet["f1"] = "p1" /\ versionSet["f2"] = "v2"
    /\ jlink["f1"] = 1 /\ jlink["f2"] = 2

\* C8: NRF_JLINK_PATH changes only in a setJlinkPath call, and every
\* setJlinkPath call, on whichever facade and whether or not the backend
\* accepts it, leaves it equal to the call's argument.
C8_Step ==
    /\ env' # env => (call = NoCall /\ call'.op = "setJlinkPath")
    /\ (call = NoCall /\ call'.op = "setJlinkPath") => env' = call'.args[1]

\* C8: every step changes NRF_JLINK_PATH only as a setJlinkPath call does,
\* to that call's argument.
C8_EnvOnlyBySetJlinkPath == [][C8_Step]_vars

C8_Witness ==
    /\ call = Called("f2", "setJlinkPath", <<"p2">>)
    /\ env = "p2"
    /\ pathSet["f1"] = "p1"
    /\ backends[jlink["f1"]].jlinkPath = "p1"

\* C9: an async method starts its backend call within the call itself and
\* hands back a pending promise; the promise settles only after the backend's
\* has, with the backend's value (no value for install and
\* downloadAndInstall) or its error; calls in flight together each keep
\* their own suspended activation; and once the backend's promise has
\* settled the method's promise eventually does.
C9_StartsAtOnce ==
    call.op \in AsyncMethods =>
        /\ delegated = <<Delegation(jlink[call.f], call.op, call.args, Pending)>>
        /\ outcome = PromiseReturned
        /\ settled = NoSettle
        /\ \E i \in Slots : inflight[i] = [f |-> call.f, op |-> call.op, backend |-> Pending]

C9_SettlesAsBackend ==
    settled # NoSettle =>
        /\ settled.backend # Pending
        /\ settled.facade =
              (IF settled.backend.ok
               THEN Ok(IF settled.op \in VoidOps THEN UNDEF ELSE settled.backend.v)
               ELSE settled.backend)

C9_Step ==
    /\ (call = NoCall /\ call'.op \in AsyncMethods) =>
          \E i \in Slots :
             /\ inflight[i] = FreeSlot
             /\ inflight' = [inflight EXCEPT
                               ![i] = [f |-> call'.f, op |-> call'.op, backend |-> Pending]]
    /\ \A i \in Slots :
          (inflight[i] # FreeSlot /\ inflight'[i] = FreeSlot) =>
             /\ inflight[i].backend # Pending
             /\ settled'.f = inflight[i].f
             /\ settled'.op = inflight[i].op
             /\ settled'.backend = inflight[i].backend

C9_BackendDone(i) == inflight[i] # FreeSlot /\ inflight[i].backend # Pending

\* C9: synchronous start, settlement only after and as the backend's, one
\* activation per call, and completion once the backend has completed.
C9_AsyncCompletion ==
    /\ [](C9_StartsAtOnce /\ C9_SettlesAsBackend)
    /\ [][C9_Step]_vars
    /\ \A i \in Slots : C9_BackendDone(i) ~> (inflight[i] = FreeSlot)

C9_Witness ==
    /\ settled.op = "install"
    /\ settled.backend = Ok("r1")
    /\ settled.facade = Ok(UNDEF)
    /\ \E i \in Slots : inflight[i] = [f |-> "f1", op |-> "install", backend |-> Pending]

\* C10: when the backend's setJlinkPath(X) throws, the caller gets that
\* error, NRF_JLINK_PATH is X all the same and the backend's recorded path
\* is what it was before the call.
C10_Step ==
    (call = NoCall /\ call'.op = "setJlinkPath" /\ outcome'.kind = "throw") =>
        /\ env' = call'.args[1]
        /\ backends' = backends
        /\ pathSet' = pathSet
        /\ outcome' = Thrown(delegated'[1].result.v)

\* C10: every setJlinkPath step in which the backend throws leaves
\* NRF_JLINK_PATH set to the argument and the backend as it was.
C10_EnvSetBeforeBackendThrows == [][C10_Step]_vars

C10_Witness ==
    /\ call = Called("f1", "setJlinkPath", <<"p2">>)
    /\ outcome = Thrown("e1")
    /\ env = "p2"
    /\ backends[jlink["f1"]].jlinkPath = "p1"

====
